---- MODULE Spec2Model ----
(***************************************************************************)
(* Nightbug: lexer -> parser -> interpreter pipeline with diagnostics.     *)
(*                                                                         *)
(* Source text is a sequence of one-character strings.  Rust offsets are   *)
(* 0-based: the character at offset i is src[i + 1].  A span is the        *)
(* half-open range [start, end).                                           *)
(***************************************************************************)
EXTENDS Integers, Sequences, FiniteSets, TLC

VARIABLES
    code,             \* main.rs: the source string handed to the pipeline
    overflow_checks,  \* build profile: TRUE = arithmetic overflow panics, FALSE = wraps
    pc,               \* position of main: "lex", "parse", "interpret", "done"
    tokens,           \* result of lexer::lex
    expressions,      \* result of parser::parse
    bindings,         \* Interpreter.bindings
    error_src,        \* Interpreter.error_ctx.source
    result,           \* result of Interpreter::interpret_with_source
    trace,            \* what the interpreter run dispatched on / handed to natives
    stderr,           \* diagnostics emitted so far, in order
    runs              \* interpret_with_source calls made on the Interpreter

vars == <<code, overflow_checks, pc, tokens, expressions, bindings, error_src,
          result, trace, stderr, runs>>

(***************************************************************************)
(* Integer widths                                                          *)
(***************************************************************************)
I32Max == 2147483647
I32Min == (-2147483647) - 1

(***************************************************************************)
(* Spans, diagnostics                                                      *)
(***************************************************************************)
Span(s, e) == [start |-> s, end |-> e]

\* DiagnosticBuilder::span_label / with_span
Label(span, text) == [span |-> span, contents |-> text]

\* DiagnosticBuilder::note
Note(text) == [level |-> "Note", contents |-> text]

\* DiagnosticsContext::build_error(..).emit(): what reaches the error stream
build_error(title, labels, footers) ==
    [level |-> "Error", title |-> title, labels |-> labels, footers |-> footers]

\* DiagnosticsContext::build_error_span
build_error_span(span, title) == build_error(title, <<Label(span, "")>>, <<>>)

\* DiagnosticsContext::build_ice_span followed by further notes
build_ice_span(span, title, notes) ==
    [level |-> "ICE", title |-> title, labels |-> <<Label(span, "")>>,
     footers |-> <<Note("this is an internal error"),
                   Note("a bug report would be highly appreciated")>> \o notes]

(***************************************************************************)
(* Lexer                                                                   *)
(***************************************************************************)
Upper == {"A","B","C","D","E","F","G","H","I","J","K","L","M",
          "N","O","P","Q","R","S","T","U","V","W","X","Y","Z"}
Lower == {"a","b","c","d","e","f","g","h","i","j","k","l","m",
          "n","o","p","q","r","s","t","u","v","w","x","y","z"}
Digits == {"0","1","2","3","4","5","6","7","8","9"}
WhitespaceChars == {" ", "\t", "\n", "\r"}

IsIdentStart(c) == c \in Upper \cup Lower \cup {"_"}
IsIdentChar(c) == c \in Upper \cup Lower \cup {"_"} \cup Digits
IsDigit(c) == c \in Digits

DigitVal(c) ==
    CASE c = "0" -> 0 [] c = "1" -> 1 [] c = "2" -> 2 [] c = "3" -> 3
      [] c = "4" -> 4 [] c = "5" -> 5 [] c = "6" -> 6 [] c = "7" -> 7
      [] c = "8" -> 8 [] c = "9" -> 9

\* source[s..e) as a string
Slice(src, s, e) == SubSeq(src, s + 1, e)

\* consume_ident's loop: the offset just past the run of identifier characters
RECURSIVE IdentRunEnd(_, _)
IdentRunEnd(src, idx) ==
    IF idx < Len(src) /\ IsIdentChar(src[idx + 1])
    THEN IdentRunEnd(src, idx + 1)
    ELSE idx

\* consume_integer's loop: the offset just past the run of digits
RECURSIVE DigitRunEnd(_, _)
DigitRunEnd(src, idx) ==
    IF idx < Len(src) /\ IsDigit(src[idx + 1])
    THEN DigitRunEnd(src, idx + 1)
    ELSE idx

\* str::parse::<i32> on a non-empty digit run: checked multiply by ten, checked add
RECURSIVE ParseI32From(_, _, _)
ParseI32From(text, k, acc) ==
    IF k > Len(text) THEN [ok |-> TRUE, val |-> acc]
    ELSE LET d == DigitVal(text[k]) IN
         IF acc > I32Max \div 10 THEN [ok |-> FALSE, cause |-> "PosOverflow"]
         ELSE IF acc * 10 > I32Max - d THEN [ok |-> FALSE, cause |-> "PosOverflow"]
         ELSE ParseI32From(text, k + 1, acc * 10 + d)

\* mutant: overflow is decided by the number of digits
ParseI32_by_length(text) ==
    IF Len(text) >= 10 THEN [ok |-> FALSE, cause |-> "PosOverflow"]
    ELSE ParseI32From(text, 1, 0)

ParseI32(text) == ParseI32From(text, 1, 0)

Token(span, kind) == [span |-> span, kind |-> kind]

\* Lexer::consume_ident
consume_ident(src, start) ==
    LET res == Slice(src, start, IdentRunEnd(src, start)) IN
    [span |-> Span(start, start + Len(res)), kind |-> "IdentOrKeyword", text |-> res]

\* Lexer::consume_integer
consume_integer(src, start) ==
    LET num_str == Slice(src, start, DigitRunEnd(src, start))
        parsed == ParseI32(num_str)
    IN IF parsed.ok
       THEN [tag |-> "Ok",
             token |-> [span |-> Span(start, start + Len(num_str)),
                        kind |-> "Integer", int |-> parsed.val]]
       ELSE [tag |-> "Err", num_str |-> num_str, cause |-> parsed.cause,
             diag |-> build_ice_span(Span(start, start + Len(num_str)),
                                     "could not parse into an integer",
                                     <<Note("str::parse::<i32> says")>>)]

\* Lexer::lex_one_token, the cursor standing at offset idx
lex_one_token(src, idx) ==
    IF idx >= Len(src) THEN [tag |-> "None"]
    ELSE LET c == src[idx + 1]
             span_c == Span(idx, idx + 1)
         IN CASE IsIdentStart(c) ->
                   LET t == consume_ident(src, idx) IN
                   [tag |-> "Some", token |-> t, next |-> t.span.end]
              [] IsDigit(c) ->
                   LET r == consume_integer(src, idx) IN
                   IF r.tag = "Ok"
                   THEN [tag |-> "Some", token |-> r.token, next |-> r.token.span.end]
                   ELSE [tag |-> "Err",
                         err |-> [kind |-> "CouldntParseInt", text |-> r.num_str,
                                  cause |-> r.cause],
                         diag |-> r.diag]
              [] c = "(" -> [tag |-> "Some", token |-> Token(span_c, "OpenParen"),
                             next |-> idx + 1]
              [] c = ")" -> [tag |-> "Some", token |-> Token(span_c, "CloseParen"),
                             next |-> idx + 1]
              [] c \in WhitespaceChars ->
                   [tag |-> "Some", token |-> Token(span_c, "Whitespace"),
                    next |-> idx + 1]
              [] OTHER -> [tag |-> "Err",
                           err |-> [kind |-> "UnexpectedChar", char |-> c, idx |-> idx],
                           diag |-> build_error_span(span_c, "unexpected character")]

\* mutant: whitespace tokens are not filtered out
KeepToken_all(token) == TRUE

\* lex: if token.kind != TokenKind::Whitespace
KeepToken(token) == token.kind # "Whitespace"

\* lex's loop from offset idx with the tokens pushed so far
RECURSIVE LexLoop(_, _, _)
LexLoop(src, idx, res) ==
    LET r == lex_one_token(src, idx) IN
    CASE r.tag = "None" -> [tag |-> "Ok", tokens |-> res, diags |-> <<>>]
      [] r.tag = "Err" -> [tag |-> "Err", err |-> r.err, diags |-> <<r.diag>>]
      [] r.tag = "Some" ->
           LexLoop(src, r.next,
                   IF KeepToken(r.token) THEN Append(res, r.token) ELSE res)

\* lexer::lex
lex(src) == LexLoop(src, 0, <<>>)

(***************************************************************************)
(* Parser                                                                  *)
(***************************************************************************)
Str_define == <<"d","e","f","i","n","e">>
Str_fn == <<"f","n">>
Str_true == <<"t","r","u","e">>
Str_false == <<"f","a","l","s","e">>

\* impl TryFrom<&str> for Keyword
Keyword_try_from(value) ==
    CASE value = Str_define -> [ok |-> TRUE, keyword |-> "Define"]
      [] value = Str_fn -> [ok |-> TRUE, keyword |-> "Fn"]
      [] OTHER -> [ok |-> FALSE]

\* Expr constructors
Expr_keyword(span, kw) == [span |-> span, kind |-> "Keyword", keyword |-> kw]
Expr_identifier(span, ident) == [span |-> span, kind |-> "Identifier", ident |-> ident]
Expr_integer(span, num) == [span |-> span, kind |-> "Integer", int |-> num]
Expr_boolean(span, b) == [span |-> span, kind |-> "Boolean", bool |-> b]
Expr_unit(span) == [span |-> span, kind |-> "Unit"]
Expr_argument(span, idx) == [span |-> span, kind |-> "Argument", idx |-> idx]
Expr_list(span, exprs) == [span |-> span, kind |-> "List", items |-> exprs]

\* Parser::emit_unclosed_delimiter_err
emit_unclosed_delimiter_err(location, eof) ==
    build_error("unclosed delimiter detected",
                <<Label(Span(location, location + 1), "this delimiter"),
                  Label(Span(eof, eof + 1),
                        "reached end of file before finding a match")>>,
                <<>>)

\* mutant: the two offsets are passed in the wrong order
UnclosedDelimiter_swapped(location, eof) ==
    [tag |-> "Err",
     err |-> [kind |-> "UnclosedDelimiter", location |-> eof, eof |-> location],
     diags |-> <<emit_unclosed_delimiter_err(eof, location)>>]

\* the Err(ParseError::UnclosedDelimiter) returns of parse_token
UnclosedDelimiter(location, eof) ==
    [tag |-> "Err",
     err |-> [kind |-> "UnclosedDelimiter", location |-> location, eof |-> eof],
     diags |-> <<emit_unclosed_delimiter_err(location, eof)>>]

\* parse_token's TokenKind::CloseParen arm
UnexpectedClose(span) ==
    [tag |-> "Err",
     err |-> [kind |-> "UnexpectedCloseDelimiter", offset |-> 0],
     diags |-> <<build_error_span(Span(0, 0), "unexpected closing parenthesis")>>]

\* parse_token's TokenKind::IdentOrKeyword arm
ClassifyIdent(span, id_or_kw) ==
    LET kw == Keyword_try_from(id_or_kw) IN
    IF kw.ok THEN Expr_keyword(span, kw.keyword)
    ELSE CASE id_or_kw = Str_true -> Expr_boolean(span, TRUE)
           [] id_or_kw = Str_false -> Expr_boolean(span, FALSE)
           [] OTHER -> Expr_identifier(span, id_or_kw)

POk(expr, pos) == [tag |-> "Ok", expr |-> expr, pos |-> pos, diags |-> <<>>]

\* Parser::parse_token.  toks is the whole token vector, pos the 1-based index of
\* the next token self.tokens would yield, token the token already taken.
RECURSIVE parse_token(_, _, _), ParseListLoop(_, _, _, _, _)
parse_token(toks, token, pos) ==
    LET span == token.span IN
    CASE token.kind = "IdentOrKeyword" -> POk(ClassifyIdent(span, token.text), pos)
      [] token.kind = "Integer" -> POk(Expr_integer(span, token.int), pos)
      [] token.kind = "OpenParen" ->
           IF pos <= Len(toks)
           THEN LET next_token == toks[pos] IN
                IF next_token.kind = "CloseParen"
                THEN POk(Expr_unit(Span(span.start, span.end + 1)), pos + 1)
                ELSE LET first == parse_token(toks, next_token, pos + 1) IN
                     IF first.tag # "Ok" THEN first
                     ELSE IF first.expr.span.end < 1
                     THEN [tag |-> "Panic", why |-> "attempt to subtract with overflow"]
                     ELSE ParseListLoop(toks, first.pos, span, <<first.expr>>,
                                        first.expr.span.end - 1)
           ELSE UnclosedDelimiter(span.start, span.end - 1)
      [] token.kind = "CloseParen" -> UnexpectedClose(span)
      [] token.kind = "Whitespace" -> [tag |-> "Panic", why |-> "unreachable"]

\* the loop of parse_token's OpenParen arm
ParseListLoop(toks, pos, span, contents, prev_expr_span_end) ==
    IF pos > Len(toks)
    THEN UnclosedDelimiter(span.start, prev_expr_span_end)
    ELSE LET next_token == toks[pos] IN
         IF next_token.kind = "CloseParen"
         THEN POk(Expr_list(Span(span.start, prev_expr_span_end), contents), pos + 1)
         ELSE LET r == parse_token(toks, next_token, pos + 1) IN
              IF r.tag = "Ok"
              THEN ParseListLoop(toks, r.pos, span, Append(contents, r.expr),
                                 r.expr.span.end)
              ELSE r

\* Parser::parse_next
parse_next(toks, pos) ==
    IF pos <= Len(toks) THEN parse_token(toks, toks[pos], pos + 1)
    ELSE [tag |-> "None"]

\* parse's while let loop
RECURSIVE ParseLoop(_, _, _)
ParseLoop(toks, pos, res) ==
    LET r == parse_next(toks, pos) IN
    CASE r.tag = "None" -> [tag |-> "Ok", exprs |-> res, diags |-> <<>>]
      [] r.tag = "Ok" -> ParseLoop(toks, r.pos, Append(res, r.expr))
      [] OTHER -> r

\* parser::parse
parse(toks) == ParseLoop(toks, 1, <<>>)

(***************************************************************************)
(* Interpreter                                                             *)
(***************************************************************************)
Str_add == <<"a","d","d">>
Str_second == <<"s","e","c","o","n","d">>

None == [some |-> FALSE]
Some(n) == [some |-> TRUE, val |-> n]

\* enum Binding
Expression(expr) == [variant |-> "Expression", expr |-> expr]
Function(num_arguments, body) ==
    [variant |-> "Function", num_arguments |-> num_arguments, body |-> body]
NativeFunction(arity, func) ==
    [variant |-> "NativeFunction", arity |-> arity, func |-> func]

\* mutant: the placeholder of second counts its arguments from one
Interpreter_new_onebased ==
    (Str_add :> NativeFunction(None, "add_native"))
    @@ (Str_second :> Function(2, Expr_argument(Span(0, 0), 2)))

\* Interpreter::new: the seeded binding table
Interpreter_new ==
    (Str_add :> NativeFunction(None, "add_native"))
    @@ (Str_second :> Function(2, Expr_argument(Span(0, 0), 1)))

\* Results carry, besides the Result itself, the diagnostics emitted on the way,
\* the expressions interpret dispatched on and the native invocations made.
\* writes lists the stores made into the Interpreter's binding table.
IOk(binding) ==
    [tag |-> "Ok", binding |-> binding, diags |-> <<>>, evaluated |-> <<>>,
     native |-> <<>>, writes |-> <<>>]
IErr_noemit(err, diag) ==
    [tag |-> "Err", err |-> err, diags |-> <<>>, evaluated |-> <<>>,
     native |-> <<>>, writes |-> <<>>]
IErr(err, diag) ==
    [tag |-> "Err", err |-> err, diags |-> <<diag>>, evaluated |-> <<>>,
     native |-> <<>>, writes |-> <<>>]
IPanic(why) ==
    [tag |-> "Panic", why |-> why, diags |-> <<>>, evaluated |-> <<>>,
     native |-> <<>>, writes |-> <<>>]

\* stores made before r, put in front of r's own
Wrote(writes, r) == [r EXCEPT !.writes = writes \o @]

\* the table after the stores, in order
RECURSIVE ApplyWrites(_, _)
ApplyWrites(table, writes) ==
    IF writes = <<>> THEN table
    ELSE ApplyWrites([table EXCEPT ![Head(writes).ident] = Head(writes).binding],
                     Tail(writes))

\* mutant: the substituted body is stored back into the function's binding
BodyWrites_writeback(ident, func, body) ==
    <<[ident |-> ident, binding |-> Function(func.num_arguments, body)]>>

\* handle_function: let mut body = body.clone(); ... body = args[num].clone()
\* assigns to a local clone of a cloned binding: nothing is stored in the table
BodyWrites(ident, func, body) == <<>>

\* what happened before r, put in front of r's own record
After(diags, evaluated, native, r) ==
    [r EXCEPT !.diags = diags \o @, !.evaluated = evaluated \o @,
              !.native = native \o @]

\* mutant: the running sum is overwritten instead of added to
i32_add_assign(a, b, oc) == [ok |-> TRUE, val |-> b]

\* res += i on i32: panics with overflow checks, wraps without
i32_add(a, b, oc) ==
    CASE b > 0 /\ a > I32Max - b ->
           IF oc THEN [ok |-> FALSE] ELSE [ok |-> TRUE, val |-> (a + I32Min) + (b + I32Min)]
      [] b < 0 /\ a < I32Min - b ->
           IF oc THEN [ok |-> FALSE] ELSE [ok |-> TRUE, val |-> (a - I32Min) + (b - I32Min)]
      [] OTHER -> [ok |-> TRUE, val |-> a + b]

\* add_native's match: does the binding hold an integer
IsIntegerBinding(binding) ==
    binding.variant = "Expression" /\ binding.expr.kind = "Integer"

\* add_native's loop over the bindings from index k with the running sum res
RECURSIVE AddLoop(_, _, _, _)
AddLoop(bs, k, res, oc) ==
    IF k > Len(bs) THEN IOk(Expression(Expr_integer(Span(0, 0), res)))
    ELSE IF IsIntegerBinding(bs[k])
    THEN LET sum == i32_add(res, bs[k].expr.int, oc) IN
         IF sum.ok THEN AddLoop(bs, k + 1, sum.val, oc)
         ELSE IPanic("attempt to add with overflow")
    ELSE IErr([kind |-> "InvalidArgument", ident |-> Str_add, binding |-> bs[k]],
              build_error("unexpected argument to add", <<>>,
                  <<Note("cannot highlight the argument in your code right now, my apologies"),
                    Note("add only expects integers as arguments")>>))

\* add_native
add_native(bs, oc) == AddLoop(bs, 1, 0, oc)

\* calling through the fn pointer held by a NativeFunction binding
CallNative(func, bs, oc) ==
    After(<<>>, <<>>, <<[func |-> func, args |-> bs]>>,
          CASE func = "add_native" -> add_native(bs, oc))

\* interpret's first arm: kinds that reduce to themselves
IsLiteralKind(kind) == kind \in {"Integer", "Boolean", "Unit"}

\* mutant: the literal is rebuilt without its span
LiteralValue_nospan(first) == Expression([first EXCEPT !.span = Span(0, 0)])

\* interpret's first arm: Ok(Binding::Expression(Expr::new(span, kind)))
LiteralValue(first) == Expression(first)

\* mutant: a callable is always applied
HasArguments_always(exprs) == TRUE

\* handle_identifier: expressions.len() != 0
HasArguments(exprs) == Len(exprs) # 0

\* mutant: only a surplus of arguments is rejected
ArityMismatch_surplus(given, num_arguments) == given > num_arguments

\* handle_function: expressions.len() != *num_arguments
ArityMismatch(given, num_arguments) == given # num_arguments

\* args[num]: indexing a Vec panics out of range
ArgAt(args, num) ==
    IF num < Len(args) THEN [ok |-> TRUE, expr |-> args[num + 1]] ELSE [ok |-> FALSE]

\* mutant: the placeholder's index is ignored and the first argument taken
SelectBody_first(body, args) ==
    IF body.kind = "Argument" THEN ArgAt(args, 0) ELSE [ok |-> TRUE, expr |-> body]

\* handle_function: if let ExprKind::Argument(num) = body.kind { body = args[num] }
SelectBody(body, args) ==
    IF body.kind = "Argument" THEN ArgAt(args, body.idx) ELSE [ok |-> TRUE, expr |-> body]

\* handle_function: the map over a List body's contents
SubstituteContents(contents, args) ==
    [i \in 1..Len(contents) |->
        IF contents[i].kind = "Argument" THEN ArgAt(args, contents[i].idx)
        ELSE [ok |-> TRUE, expr |-> contents[i]]]

\* the WrongNumArgs diagnostic of a user function
WrongNumArgsDiag(exprs, name_span) ==
    build_error("wrong number of arguments for function",
        (IF Len(exprs) # 0
         THEN <<Label(Span(exprs[1].span.start, exprs[Len(exprs)].span.end),
                      "got arguments")>>
         ELSE <<>>) \o <<Label(name_span, "expected arguments")>>,
        <<>>)

WrongNumArgs(ident, expected, got) ==
    [kind |-> "WrongNumArgs", ident |-> ident, expected |-> expected, got |-> got]

RECURSIVE interpret(_, _, _), handle_identifier(_, _, _, _, _),
          handle_function(_, _, _, _, _, _), ReduceArgs(_, _, _, _, _, _)

\* Interpreter::interpret
interpret(table, exprs, oc) ==
    IF exprs = <<>> THEN IOk(Expression(Expr_unit(Span(0, 0))))
    ELSE LET first == Head(exprs)
             rest == Tail(exprs)
         IN After(<<>>, <<first>>, <<>>,
              CASE IsLiteralKind(first.kind) -> IOk(LiteralValue(first))
                [] first.kind = "List" -> interpret(table, first.items, oc)
                [] first.kind = "Identifier" ->
                     handle_identifier(table, first.ident, first.span, rest, oc)
                [] first.kind = "Keyword" -> IPanic("not yet implemented")
                [] first.kind = "Argument" -> IPanic("unreachable"))

\* Interpreter::handle_identifier
handle_identifier(table, ident, span, exprs, oc) ==
    IF ident \notin DOMAIN table
    THEN IErr([kind |-> "UnknownIdentifier", ident |-> ident],
              build_error("unknown identifier",
                          <<Label(span, "not found in this scope")>>, <<>>))
    ELSE LET binding == table[ident] IN
         IF binding.variant = "Expression" THEN IOk(binding)
         ELSE IF HasArguments(exprs)
         THEN handle_function(table, binding, ident, span, exprs, oc)
         ELSE IOk(binding)

\* Interpreter::handle_function
handle_function(table, func, ident, name_span, exprs, oc) ==
    CASE func.variant = "Function" ->
           IF ArityMismatch(Len(exprs), func.num_arguments)
           THEN IErr(WrongNumArgs(ident, func.num_arguments, Len(exprs)),
                     WrongNumArgsDiag(exprs, name_span))
           ELSE LET args == exprs
                    sel == SelectBody(func.body, args)
                IN IF ~sel.ok THEN IPanic("index out of bounds")
                   ELSE LET body == sel.expr IN
                     Wrote(BodyWrites(ident, func, body),
                     CASE body.kind = "List" ->
                            LET sub == SubstituteContents(body.items, args) IN
                            IF \E i \in 1..Len(sub) : ~sub[i].ok
                            THEN IPanic("index out of bounds")
                            ELSE interpret(table,
                                     [i \in 1..Len(sub) |-> sub[i].expr], oc)
                       [] body.kind = "Identifier" ->
                            handle_identifier(table, ident, body.span, <<>>, oc)
                       [] IsLiteralKind(body.kind) -> IOk(Expression(body))
                       [] OTHER -> IPanic("not yet implemented"))
      [] func.variant = "NativeFunction" ->
           IF func.arity.some /\ Len(exprs) # func.arity.val
           THEN IErr(WrongNumArgs(ident, func.arity.val, Len(exprs)),
                     build_error("wrong number of arguments for function",
                         <<Label(name_span, "expected arguments")>>,
                         <<Note("cannot show definition because it is a built-in function")>>))
           ELSE ReduceArgs(table, func, exprs, 1, <<>>, oc)
      [] OTHER -> IPanic("unreachable")

\* handle_function's for expr in expressions loop and the native call after it
ReduceArgs(table, func, exprs, k, bs, oc) ==
    IF k > Len(exprs) THEN CallNative(func.func, bs, oc)
    ELSE IF exprs[k].kind = "List"
    THEN LET r == interpret(table, exprs[k].items, oc) IN
         IF r.tag # "Ok" THEN r
         ELSE Wrote(r.writes, After(r.diags, r.evaluated, r.native,
                    ReduceArgs(table, func, exprs, k + 1, Append(bs, r.binding), oc)))
    ELSE ReduceArgs(table, func, exprs, k + 1, Append(bs, Expression(exprs[k])), oc)

(***************************************************************************)
(* Inputs                                                                  *)
(***************************************************************************)
MaxLen == 4        \* longest source of SpecLex
MaxParseLen == 6   \* longest source of SpecParse
MaxTop == 2        \* most top-level forms in a program of Spec
MaxAtomArgs == 3   \* most arguments of a call over SimpleAtoms
MaxRuns == 3       \* most interpret_with_source calls on one Interpreter in SpecSession

\* all strings over alphabet A of length at most n
Strings(A, n) == UNION {[1..k -> A] : k \in 0..n}

LexAlphabet == {"a", "_", "7", "(", ")", " ", "\n", "?"}
ParseAlphabet == {"(", ")", " ", "a"}

\* digit runs around the i32 limit, alone or next to another word
Str_i32over == <<"2","1","4","7","4","8","3","6","4","8">>
Str_padded == <<"0","0","7">>
Str_long == <<"9","9","9","9","9","9","9","9","9","9","9">>
Str_padded_long == <<"0","0","0","0","0","0","0","0","0","0","7">>
DigitWords == {<<"2","1","4","7","4","8","3","6","4","7">>, Str_i32over, Str_padded,
               Str_padded_long, Str_long, <<"0">>}
DigitSources ==
    {a \o b \o c : a \in {<<>>, <<"(">>, <<" ">>, <<"a">>}, b \in DigitWords,
                    c \in {<<>>, <<")">>, <<"a">>, <<" ", "1">>}}

LexSources == Strings(LexAlphabet, MaxLen) \cup DigitSources
ParseSources == Strings(ParseAlphabet, MaxParseLen)

Str_1 == <<"1">>
Str_i32max == <<"2","1","4","7","4","8","3","6","4","7">>
Str_foo == <<"f","o","o">>
Str_unit == <<"(", ")">>

Heads == {Str_add, Str_second, Str_foo}
SimpleAtoms == {Str_1, Str_foo, Str_true}
NestedAtoms == {Str_1, Str_i32max, Str_foo}
ArgAtoms == {Str_1, Str_i32max, Str_true, Str_foo, Str_add, Str_second, Str_fn,
             Str_unit}

\* words joined by single spaces
RECURSIVE Join(_)
Join(words) ==
    IF words = <<>> THEN <<>>
    ELSE IF Len(words) = 1 THEN words[1]
    ELSE words[1] \o <<" ">> \o Join(Tail(words))

\* the text "(head arg1 ... argn)"
CallText(head, args) == <<"(">> \o Join(<<head>> \o args) \o <<")">>

NestedCalls ==
    {CallText(h, args) : h \in Heads, args \in Strings(NestedAtoms, 2)}
Operands == ArgAtoms \cup NestedCalls

Programs ==
    {Join(forms) : forms \in Strings(ArgAtoms, MaxTop)}
    \cup {CallText(h, args) : h \in Heads, args \in Strings(Operands, 2)}
    \cup {CallText(h, args) : h \in Heads, args \in Strings(SimpleAtoms, MaxAtomArgs)}

\* programs handed one after another to one Interpreter
SessionSources ==
    {CallText(Str_second, <<Str_1, Str_true>>),
     CallText(Str_second, <<Str_1, CallText(Str_add, <<Str_1, Str_1>>)>>),
     CallText(Str_second, <<Str_foo, Str_second>>),
     CallText(Str_second, <<Str_1>>),
     CallText(Str_add, <<Str_1, CallText(Str_second, <<Str_foo, Str_1>>)>>),
     CallText(Str_add, <<Str_foo>>),
     CallText(Str_foo, <<Str_1>>),
     Str_second}

(***************************************************************************)
(* The pipeline of main                                                    *)
(***************************************************************************)
NotRun == [tag |-> "NotRun"]

InitWith(sources) ==
    /\ code \in sources
    /\ overflow_checks \in BOOLEAN
    /\ pc = "lex"
    /\ tokens = NotRun
    /\ expressions = NotRun
    /\ bindings = <<>>
    /\ error_src = <<>>
    /\ result = NotRun
    /\ trace = [evaluated |-> <<>>, native |-> <<>>]
    /\ stderr = <<>>
    /\ runs = 0

Init == InitWith(Programs)
InitLex == InitWith(LexSources)
InitParse == InitWith(ParseSources)
InitAll == InitWith(Programs \cup LexSources \cup ParseSources)
InitSession == InitWith(SessionSources)

\* main.rs 16-19: lexer::lex(code); on Err main returns
Lex ==
    /\ pc = "lex"
    /\ LET r == lex(code) IN
       /\ tokens' = IF r.tag = "Ok" THEN [tag |-> "Ok", tokens |-> r.tokens]
                    ELSE [tag |-> "Err", err |-> r.err]
       /\ stderr' = stderr \o r.diags
       /\ pc' = IF r.tag = "Ok" THEN "parse" ELSE "done"
    /\ UNCHANGED <<code, overflow_checks, expressions, bindings, error_src, result,
                   trace, runs>>

\* main.rs 23-26: parser::parse(tokens, code); on Err main returns
Parse ==
    /\ pc = "parse"
    /\ LET r == parse(tokens.tokens) IN
       /\ expressions' = CASE r.tag = "Ok" -> [tag |-> "Ok", exprs |-> r.exprs]
                           [] r.tag = "Err" -> [tag |-> "Err", err |-> r.err]
                           [] OTHER -> [tag |-> "Panic", why |-> r.why]
       /\ stderr' = stderr \o (IF r.tag = "Panic" THEN <<>> ELSE r.diags)
       /\ pc' = CASE r.tag # "Ok" -> "done"
                  [] r.tag = "Ok" /\ runs = 0 -> "new"
                  [] OTHER -> "interpret"
    /\ UNCHANGED <<code, overflow_checks, tokens, bindings, error_src, result, trace,
                   runs>>

\* main.rs 30: Interpreter::new()
New ==
    /\ pc = "new"
    /\ bindings' = Interpreter_new
    /\ error_src' = <<>>
    /\ pc' = "interpret"
    /\ UNCHANGED <<code, overflow_checks, tokens, expressions, result, trace, stderr,
                   runs>>

\* main.rs 33: interpreter.interpret_with_source(expressions, code)
InterpretWithSource ==
    /\ pc = "interpret"
    /\ error_src' = code
    /\ LET r == interpret(bindings, expressions.exprs, overflow_checks) IN
       /\ result' = CASE r.tag = "Ok" -> [tag |-> "Ok", binding |-> r.binding]
                      [] r.tag = "Err" -> [tag |-> "Err", err |-> r.err]
                      [] OTHER -> [tag |-> "Panic", why |-> r.why]
       /\ trace' = [evaluated |-> r.evaluated, native |-> r.native]
       /\ stderr' = stderr \o r.diags
       /\ bindings' = ApplyWrites(bindings, r.writes)
    /\ runs' = runs + 1
    /\ pc' = "done"
    /\ UNCHANGED <<code, overflow_checks, tokens, expressions>>

\* a caller that keeps its Interpreter hands it the next program: the pipeline
\* runs again up to a further interpret_with_source call on the same instance
Again ==
    /\ pc = "done"
    /\ result.tag \in {"Ok", "Err"}
    /\ runs < MaxRuns
    /\ code' \in SessionSources
    /\ pc' = "lex"
    /\ tokens' = NotRun
    /\ expressions' = NotRun
    /\ result' = NotRun
    /\ trace' = [evaluated |-> <<>>, native |-> <<>>]
    /\ UNCHANGED <<overflow_checks, bindings, error_src, stderr, runs>>

Next == Lex \/ Parse \/ New \/ InterpretWithSource

NextSession == Lex \/ Parse \/ New \/ InterpretWithSource \/ Again

Spec == Init /\ [][Next]_vars
SpecLex == InitLex /\ [][Next]_vars
SpecParse == InitParse /\ [][Next]_vars
SpecAll == InitAll /\ [][Next]_vars
SpecSession == InitSession /\ [][NextSession]_vars

(***************************************************************************)
(* Properties                                                              *)
(***************************************************************************)
Range(f) == {f[i] : i \in DOMAIN f}

Done == pc = "done" /\ result # NotRun

\* the program's first top-level expression is a list headed by identifier name
IsCallOf(name) ==
    /\ expressions.tag = "Ok"
    /\ expressions.exprs # <<>>
    /\ expressions.exprs[1].kind = "List"
    /\ expressions.exprs[1].items[1].kind = "Identifier"
    /\ expressions.exprs[1].items[1].ident = name

CallArgs == Tail(expressions.exprs[1].items)

\* exact integers beyond 32 bits: value = hi * 65536 + lo with 0 <= lo < 65536
WideAdd(w, v) ==
    LET s == w.lo + (v % 65536) IN
    [hi |-> w.hi + (v \div 65536) + (s \div 65536), lo |-> s % 65536]

RECURSIVE WideSum(_)
WideSum(vals) ==
    IF vals = <<>> THEN [hi |-> 0, lo |-> 0]
    ELSE WideAdd(WideSum(Tail(vals)), Head(vals))

AtMostI32Max(w) == w.hi <= 32767
AtLeastI32Min(w) == w.hi >= -32768
Narrow(w) == w.hi * 65536 + w.lo

\* what an operand of a native call reduces to
Reduced(e) ==
    IF e.kind = "List" THEN interpret(bindings, e.items, overflow_checks)
    ELSE IOk(Expression(e))

ReducesToInteger(e) ==
    /\ e.kind \in {"Integer", "List"}
    /\ Reduced(e).tag = "Ok"
    /\ IsIntegerBinding(Reduced(e).binding)

\* the case of C1: (add e1 ... ek), k >= 1, every operand reducing to an Integer
AddCase ==
    /\ Done
    /\ IsCallOf(Str_add)
    /\ Len(CallArgs) >= 1
    /\ \A i \in 1..Len(CallArgs) : ReducesToInteger(CallArgs[i])

OperandSum ==
    WideSum([i \in 1..Len(CallArgs) |-> Reduced(CallArgs[i]).binding.expr.int])

ResultIsInteger(w) ==
    /\ result.tag = "Ok"
    /\ IsIntegerBinding(result.binding)
    /\ AtMostI32Max(w) /\ AtLeastI32Min(w)
    /\ result.binding.expr.int = Narrow(w)

\* C1 as stated: (add e1 ... ek) whose operands reduce to Integers with a sum of
\* at most 2^31-1 returns Ok(Expression(Integer(sum))).
C1_AddReturnsSum_Original ==
    (AddCase /\ AtMostI32Max(OperandSum)) => ResultIsInteger(OperandSum)

\* C1 amended: (add e1 ... ek) whose operands reduce to Integers with a sum
\* between -2^31 and 2^31-1 returns Ok(Expression(Integer(sum))).
C1_AddReturnsSum ==
    (AddCase /\ AtMostI32Max(OperandSum) /\ AtLeastI32Min(OperandSum))
        => ResultIsInteger(OperandSum)

\* an add call with a literal and a nested-call operand has returned its sum
C1_Witness ==
    /\ AddCase
    /\ AtMostI32Max(OperandSum) /\ AtLeastI32Min(OperandSum)
    /\ \E i \in 1..Len(CallArgs) : CallArgs[i].kind = "List"
    /\ \E i \in 1..Len(CallArgs) : CallArgs[i].kind = "Integer"
    /\ result.tag = "Ok"

\* the case of C2: (second a b) with b a literal or a list
SecondCase ==
    /\ Done
    /\ IsCallOf(Str_second)
    /\ Len(CallArgs) = 2
    /\ (IsLiteralKind(CallArgs[2].kind) \/ CallArgs[2].kind = "List")

Outcome(r) ==
    CASE r.tag = "Ok" -> [tag |-> "Ok", binding |-> r.binding]
      [] r.tag = "Err" -> [tag |-> "Err", err |-> r.err]
      [] OTHER -> [tag |-> "Panic", why |-> r.why]

\* C2: (second a b), b a literal or a list, returns exactly what interpreting b
\* alone returns, emits exactly the diagnostics of b, and never evaluates a.
C2_SecondReturnsSecond ==
    SecondCase =>
        LET a == CallArgs[1]
            b == CallArgs[2]
            alone == interpret(bindings, <<b>>, overflow_checks)
        IN /\ result = Outcome(alone)
           /\ stderr = alone.diags
           /\ a \notin Range(trace.evaluated)
           /\ \A n \in Range(trace.native) : Expression(a) \notin Range(n.args)

\* (second a b) has run with a first argument that would fail if evaluated
C2_Witness ==
    /\ SecondCase
    /\ result.tag = "Ok"
    /\ interpret(bindings, <<CallArgs[1]>>, overflow_checks).tag = "Err"

\* the program is the bare identifier name, or the one-element list (name)
IsBare(name) ==
    /\ expressions.tag = "Ok"
    /\ Len(expressions.exprs) = 1
    /\ LET e == expressions.exprs[1] IN
       \/ e.kind = "Identifier" /\ e.ident = name
       \/ /\ e.kind = "List" /\ Len(e.items) = 1
          /\ e.items[1].kind = "Identifier" /\ e.items[1].ident = name

\* C3: a callable identifier with zero trailing expressions yields its binding
\* unapplied (second: Function of arity 2, add: NativeFunction of arity None),
\* and WrongNumArgs is never produced with got = 0.
C3_BareCallableUnapplied ==
    /\ (Done /\ IsBare(Str_second)) =>
          /\ result.tag = "Ok"
          /\ result.binding.variant = "Function"
          /\ result.binding.num_arguments = 2
          /\ trace.native = <<>> /\ stderr = <<>>
    /\ (Done /\ IsBare(Str_add)) =>
          /\ result.tag = "Ok"
          /\ result.binding.variant = "NativeFunction"
          /\ result.binding.arity = None
          /\ trace.native = <<>> /\ stderr = <<>>
    /\ (result.tag = "Err" /\ result.err.kind = "WrongNumArgs") => result.err.got # 0

\* the one-element list (second) has been interpreted
C3_Witness ==
    /\ Done /\ IsBare(Str_second)
    /\ expressions.exprs[1].kind = "List"

\* C4: a sequence whose first expression is an Integer, Boolean or Unit literal
\* returns Ok(Expression(first)), span and kind unchanged, and evaluates nothing else.
C4_LiteralFirst ==
    (Done /\ expressions.exprs # <<>> /\ IsLiteralKind(expressions.exprs[1].kind)) =>
        /\ result = [tag |-> "Ok", binding |-> Expression(expressions.exprs[1])]
        /\ trace.evaluated = <<expressions.exprs[1]>>
        /\ trace.native = <<>>
        /\ stderr = <<>>

\* a Unit literal followed by an unknown identifier has been interpreted
C4_Witness ==
    /\ Done
    /\ Len(expressions.exprs) = 2
    /\ expressions.exprs[1].kind = "Unit"
    /\ expressions.exprs[2].kind = "Identifier"
    /\ expressions.exprs[2].ident = Str_foo

\* parentheses of a token vector: the offsets of the open parentheses still
\* unmatched at the end, or the offset of the first ")" that matches nothing
RECURSIVE ScanParens(_, _, _)
ScanParens(toks, k, open) ==
    IF k > Len(toks) THEN [ok |-> TRUE, open |-> open]
    ELSE CASE toks[k].kind = "OpenParen" ->
                ScanParens(toks, k + 1, Append(open, toks[k].span.start))
           [] toks[k].kind = "CloseParen" ->
                IF open = <<>> THEN [ok |-> FALSE, at |-> toks[k].span.start]
                ELSE ScanParens(toks, k + 1, SubSeq(open, 1, Len(open) - 1))
           [] OTHER -> ScanParens(toks, k + 1, open)

Parsed == tokens.tag = "Ok" /\ expressions # NotRun
Parens == ScanParens(tokens.tokens, 1, <<>>)

\* C5: tokens in which no prefix closes more than it opens and some "(" stays
\* open make parse return Err(UnclosedDelimiter) (no panic), location being the
\* offset of the most recently opened "(" that has no matching ")".
C5_UnclosedDelimiter ==
    (Parsed /\ Parens.ok /\ Parens.open # <<>>) =>
        /\ expressions.tag = "Err"
        /\ expressions.err.kind = "UnclosedDelimiter"
        /\ expressions.err.location = Parens.open[Len(Parens.open)]

\* parse has failed inside a nested list while an outer list holds a closed child
C5_Witness ==
    /\ Parsed /\ Parens.ok
    /\ Len(Parens.open) = 2
    /\ \E k \in 1..Len(tokens.tokens) : tokens.tokens[k].kind = "CloseParen"
    /\ expressions.tag = "Err"

RECURSIVE ConcatSlices(_, _)
ConcatSlices(src, toks) ==
    IF toks = <<>> THEN <<>>
    ELSE Slice(src, toks[1].span.start, toks[1].span.end) \o ConcatSlices(src, Tail(toks))

RECURSIVE StripWhitespace(_)
StripWhitespace(src) ==
    IF src = <<>> THEN <<>>
    ELSE (IF Head(src) \in WhitespaceChars THEN <<>> ELSE <<Head(src)>>)
         \o StripWhitespace(Tail(src))

\* C6: when lex succeeds, no token is Whitespace, spans lie within the input,
\* are non-empty, non-overlapping and increasing, and the slices at the spans,
\* concatenated in order, are the input without its whitespace characters.
C6_LexRoundTrip ==
    tokens.tag = "Ok" =>
        LET ts == tokens.tokens IN
        /\ \A i \in 1..Len(ts) :
              /\ ts[i].kind # "Whitespace"
              /\ 0 <= ts[i].span.start
              /\ ts[i].span.start < ts[i].span.end
              /\ ts[i].span.end <= Len(code)
        /\ \A i \in 1..(Len(ts) - 1) : ts[i].span.end <= ts[i + 1].span.start
        /\ ConcatSlices(code, ts) = StripWhitespace(code)

\* lex has succeeded on an input holding whitespace, an identifier and an integer
C6_Witness ==
    /\ tokens.tag = "Ok"
    /\ \E i \in 1..Len(code) : code[i] \in WhitespaceChars
    /\ \E i \in 1..Len(tokens.tokens) : tokens.tokens[i].kind = "IdentOrKeyword"
    /\ \E i \in 1..Len(tokens.tokens) : tokens.tokens[i].kind = "Integer"

\* the argument expressions handed to second: as a list (second ...) or as the
\* expressions following a top-level second
SecondApplied ==
    /\ Done
    /\ \/ IsCallOf(Str_second)
       \/ /\ expressions.exprs # <<>>
          /\ expressions.exprs[1].kind = "Identifier"
          /\ expressions.exprs[1].ident = Str_second

SecondArgs ==
    IF expressions.exprs[1].kind = "List" THEN CallArgs ELSE Tail(expressions.exprs)

\* C7: second applied to n arguments, n >= 1 and n # 2, returns
\* Err(WrongNumArgs{second, 2, n}) with one diagnostic and evaluates no argument.
C7_WrongNumArgs ==
    (SecondApplied /\ Len(SecondArgs) >= 1 /\ Len(SecondArgs) # 2) =>
        /\ result = [tag |-> "Err",
                     err |-> WrongNumArgs(Str_second, 2, Len(SecondArgs))]
        /\ Len(stderr) = 1
        /\ stderr[1].title = "wrong number of arguments for function"
        /\ \A i \in 1..Len(SecondArgs) : SecondArgs[i] \notin Range(trace.evaluated)
        /\ trace.native = <<>>

\* second was applied to the wrong number of arguments, one of which fails when
\* it is evaluated
C7_Witness ==
    /\ SecondApplied /\ Len(SecondArgs) >= 1 /\ Len(SecondArgs) # 2
    /\ \E i \in 1..Len(SecondArgs) :
          interpret(bindings, <<SecondArgs[i]>>, overflow_checks).tag = "Err"

AnyErr == tokens.tag = "Err" \/ expressions.tag = "Err" \/ result.tag = "Err"
AnyPanic == expressions.tag = "Panic" \/ result.tag = "Panic"

\* C9: a run of lex, parse or interpret that returned Err has emitted exactly one
\* diagnostic, also when the error came out of nested lists or nested interpret
\* calls; runs that returned Ok have emitted none.
C9_OneDiagnosticPerError ==
    /\ AnyErr => Len(stderr) = 1
    /\ (~AnyErr /\ ~AnyPanic) => stderr = <<>>

\* an error raised in a nested interpret call has propagated out of a native call
C9_Witness ==
    /\ Done /\ IsCallOf(Str_add)
    /\ result.tag = "Err"
    /\ result.err.kind = "UnknownIdentifier"
    /\ \E i \in 1..Len(CallArgs) : CallArgs[i].kind = "List"

\* C10: a ")" that matches no "(" makes parse return
\* Err(UnexpectedCloseDelimiter(o)), o the offset of that ")", the diagnostic's
\* label anchored there.
C10_UnexpectedCloseOffset ==
    (Parsed /\ ~Parens.ok) =>
        /\ expressions.tag = "Err"
        /\ expressions.err.kind = "UnexpectedCloseDelimiter"
        /\ expressions.err.offset = Parens.at
        /\ stderr[1].labels[1].span.start = Parens.at

\* the maximal runs of digits of the source, as spans
DigitRuns ==
    {Span(s, e) : s \in 0..Len(code), e \in 0..Len(code)} \cap
    {r \in [start : 0..Len(code), end : 0..Len(code)] :
        /\ r.start < r.end
        /\ \A k \in (r.start + 1)..r.end : IsDigit(code[k])
        /\ (r.start = 0 \/ ~IsDigit(code[r.start]))
        /\ (r.end = Len(code) \/ ~IsDigit(code[r.end + 1]))}

RunText(r) == Slice(code, r.start, r.end)

\* a run that follows a letter or "_" continues an identifier
StartsToken(r) == r.start = 0 \/ ~IsIdentChar(code[r.start])

RECURSIVE StripZeros(_)
StripZeros(text) ==
    IF text # <<>> /\ Head(text) = "0" THEN StripZeros(Tail(text)) ELSE text

\* digit strings of equal length compared as numbers
RECURSIVE DigitsLeq(_, _)
DigitsLeq(a, b) ==
    IF a = <<>> THEN TRUE
    ELSE IF DigitVal(Head(a)) # DigitVal(Head(b))
    THEN DigitVal(Head(a)) < DigitVal(Head(b))
    ELSE DigitsLeq(Tail(a), Tail(b))

\* the decimal value of the text is at most 2147483647
FitsI32(text) ==
    LET t == StripZeros(text) IN
    Len(t) < 10 \/ (Len(t) = 10 /\ DigitsLeq(t, Str_i32max))

\* the decimal value of a text that fits
RECURSIVE DecimalValue(_)
DecimalValue(text) ==
    IF text = <<>> THEN 0
    ELSE DecimalValue(SubSeq(text, 1, Len(text) - 1)) * 10 + DigitVal(text[Len(text)])

\* nothing before offset s makes lex fail: no character outside the lexer's
\* classes and no token-starting digit run beyond the i32 range
LexReaches(s) ==
    /\ \A k \in 1..s : IsIdentChar(code[k]) \/ code[k] \in WhitespaceChars \cup {"(", ")"}
    /\ \A r \in DigitRuns : (r.end <= s /\ StartsToken(r)) => FitsI32(RunText(r))

HasIntegerToken(r) ==
    \E i \in 1..Len(tokens.tokens) :
        /\ tokens.tokens[i].kind = "Integer"
        /\ tokens.tokens[i].span = r
        /\ tokens.tokens[i].int = DecimalValue(RunText(r))

IceReported(r) ==
    /\ tokens = [tag |-> "Err",
                 err |-> [kind |-> "CouldntParseInt", text |-> RunText(r),
                          cause |-> "PosOverflow"]]
    /\ Len(stderr) = 1
    /\ stderr[1].level = "ICE"
    /\ stderr[1].labels[1].span = r
    /\ Len(stderr[1].footers) >= 2
    /\ stderr[1].footers[1] = Note("this is an internal error")
    /\ stderr[1].footers[2] = Note("a bug report would be highly appreciated")

\* C11 as stated: every maximal digit run of the input yields an Integer token
\* with its value and span when the value is at most 2147483647, and
\* Err(CouldntParseInt(run, cause)) with an ICE diagnostic when it is larger.
C11_DigitRuns_Original ==
    tokens # NotRun =>
        \A r \in DigitRuns :
            /\ (tokens.tag = "Ok" /\ FitsI32(RunText(r))) => HasIntegerToken(r)
            /\ (LexReaches(r.start) /\ ~FitsI32(RunText(r))) => IceReported(r)

\* C11 amended: the same, for the maximal digit runs that are not immediately
\* preceded by a letter or "_" (those continue an identifier); and lex fails
\* with CouldntParseInt only on such a run beyond the i32 range.
C11_DigitRuns ==
    tokens # NotRun =>
        /\ \A r \in DigitRuns :
              StartsToken(r) =>
                /\ (tokens.tag = "Ok" /\ FitsI32(RunText(r))) => HasIntegerToken(r)
                /\ (LexReaches(r.start) /\ ~FitsI32(RunText(r))) => IceReported(r)
        /\ (tokens.tag = "Err" /\ tokens.err.kind = "CouldntParseInt") =>
              \E r \in DigitRuns :
                  StartsToken(r) /\ ~FitsI32(RunText(r)) /\ tokens.err.text = RunText(r)

\* lex has failed on a digit run beyond the i32 range
C11_Witness ==
    /\ tokens.tag = "Err"
    /\ tokens.err.kind = "CouldntParseInt"
    /\ tokens.err.text = Str_i32over

\* an expression and everything nested in it
RECURSIVE SubExprs(_)
SubExprs(e) ==
    {e} \cup (IF e.kind = "List"
              THEN UNION {SubExprs(e.items[i]) : i \in 1..Len(e.items)}
              ELSE {})

ParsedExprs ==
    UNION {SubExprs(expressions.exprs[i]) : i \in 1..Len(expressions.exprs)}

\* C12: every parsed List spans from its "(" to the end of its last child, and
\* every Unit from its "(" to just after its ")", whitespace between them or not.
C12_ListAndUnitSpans ==
    expressions.tag = "Ok" =>
        \A e \in ParsedExprs :
            /\ e.kind = "List" =>
                  /\ code[e.span.start + 1] = "("
                  /\ e.span.end = e.items[Len(e.items)].span.end
            /\ e.kind = "Unit" =>
                  /\ code[e.span.start + 1] = "("
                  /\ e.span.end <= Len(code)
                  /\ code[e.span.end] = ")"
                  /\ \A k \in (e.span.start + 2)..(e.span.end - 1) :
                        code[k] \in WhitespaceChars

\* C13: the eof of an UnclosedDelimiter is the offset of the last character of
\* the last token consumed before the end of input, so it lies inside the source.
C13_EofIsLastConsumed ==
    (expressions.tag = "Err" /\ expressions.err.kind = "UnclosedDelimiter") =>
        /\ expressions.err.eof = tokens.tokens[Len(tokens.tokens)].span.end - 1
        /\ expressions.err.eof < Len(code)

\* C14: (second a x) with x an Identifier returns what resolving x with no
\* arguments returns: the binding of x, or Err(UnknownIdentifier(x)).
C14_IdentifierBody ==
    (Done /\ IsCallOf(Str_second) /\ Len(CallArgs) = 2
          /\ CallArgs[2].kind = "Identifier") =>
        LET x == CallArgs[2].ident IN
        IF x \in DOMAIN bindings
        THEN result = [tag |-> "Ok", binding |-> bindings[x]]
        ELSE result = [tag |-> "Err", err |-> [kind |-> "UnknownIdentifier", ident |-> x]]

\* C15: a native procedure only ever receives reduced values: Expressions of
\* kind Integer, Boolean or Unit, or callable bindings.
C15_NativeSeesReducedValues ==
    \A n \in Range(trace.native) :
        \A b \in Range(n.args) :
            b.variant = "Expression" => IsLiteralKind(b.expr.kind)

\* C16: on parsed input, interpret never dispatches on an Argument and no
\* substitution of Argument(i) indexes outside the supplied arguments.
C16_ArgumentsStayInBodies ==
    /\ \A e \in Range(trace.evaluated) : e.kind # "Argument"
    /\ result.tag = "Panic" => result.why \notin {"unreachable", "index out of bounds"}

\* second has substituted its placeholder with a list argument and reduced it
C16_Witness ==
    /\ SecondCase
    /\ CallArgs[2].kind = "List"
    /\ result.tag = "Ok"

\* C17: after any sequence of interpret_with_source calls on one Interpreter,
\* successful or failing, its table holds exactly the two seeded entries, add
\* bound to NativeFunction(None, add_native) and second to Function(2, Argument(1)).
C17_BindingsUnchanged ==
    runs >= 1 =>
        /\ DOMAIN bindings = {Str_add, Str_second}
        /\ bindings[Str_add] = NativeFunction(None, "add_native")
        /\ bindings[Str_second] = Function(2, Expr_argument(Span(0, 0), 1))

\* one Interpreter has served several calls, the last one a substitution that
\* succeeded, an earlier one having failed
C17_Witness ==
    /\ runs >= 3
    /\ pc = "done"
    /\ result.tag = "Ok"
    /\ IsCallOf(Str_second)
    /\ \E i \in 1..Len(stderr) : stderr[i].title = "unknown identifier"

====
